---- MODULE Spec2Model ----
(***************************************************************************)
(* Habr InfoSec RSS bot (main.go): the dedup/expiry cache, the fetch       *)
(* cycle getHabrInfoSecFeed, the delivery loop sendInfoSecFeed, the        *)
(* process-wide rate limiter and the hourly cleanup goroutine.             *)
(*                                                                         *)
(* main.go holds two variants of the bot.  The first (lines 1-303) guards  *)
(* the cache with articlesMux and expires entries; the second (lines       *)
(* 305-521) keeps a bare map.  The first variant is modelled by the        *)
(* actions below, the second by the V2 actions further down.               *)
(*                                                                         *)
(* Time is in milliseconds.  A goroutine is one process of the model; its  *)
(* position is pc[g] and its locals are loc[g].                            *)
(***************************************************************************)
EXTENDS Integers, Sequences, FiniteSets, TLC

VARIABLES
    now,                \* wall clock (time.Now), ms
    ticks,              \* number of clock advances so far (bounds the model)
    updates,            \* number of messages received so far (bounds the model)
    articles,           \* Bot.articles: guid -> bool
    articleTimestamps,  \* Bot.articleTimestamps: guid -> time
    articlesMux,        \* Bot.articlesMux: "free" or the goroutine holding it
    limiter,            \* Bot.limiter: [tokens, last]
    pc,                 \* goroutine -> position
    loc,                \* goroutine -> locals
    lastMark,           \* history: guid -> time of the latest markArticleAsSent, -1 if none
    retMark,            \* history: guid -> latest mark time among returned cycles, -1 if none
    lastCycle,          \* history: the last fetch cycle that returned
    lastGrant,          \* history: time of the latest granted Allow, -1 if none
    grants,             \* history: number of granted Allow calls
    chatLog,            \* history: msg.Chat.ID -> the Allow calls made for its messages
    failedAt,           \* history: guid -> mark time of an article whose Send failed, -1 if none
    ticker,             \* the cleanup ticker: the time of its next tick
    crashed             \* the Go runtime aborted the process (fatal error)

vars == <<now, ticks, updates, articles, articleTimestamps, articlesMux, limiter, pc, loc,
          lastMark, retMark, lastCycle, lastGrant, grants, chatLog, failedAt, ticker,
          crashed>>

----------------------------------------------------------------------------
(* Program constants *)

Second == 1000
Hour == 3600 * Second
\* articleExpiry: 24 * time.Hour
articleExpiry == 24 * Hour
\* time.Sleep(500 * time.Millisecond) between article messages
sendDelay == 500
\* "Limit to 10 most recent articles"
maxResults == 10
\* rate.NewLimiter(rate.Every(1*time.Second), 1)
limiterBurst == 1
limiterEvery == 1 * Second
\* time.NewTicker(1 * time.Hour)
cleanupEvery == 1 * Hour

(* Bounds of the model *)

\* clock advances per behaviour
MaxTicks == 1
\* clock advances per behaviour where the clock is finer
FineTicks == 3
\* messages received per behaviour
MaxUpdates == 2
\* messages received per behaviour where only the limiter is exercised
MaxCalls == 4
\* feed entries beyond the result cap in the long feed
ExtraEntries == 2

----------------------------------------------------------------------------
(* Goroutines, guids, feeds *)

Handlers == {"h1", "h2"}
Cleaner == "cleaner"
Procs == Handlers \cup {Cleaner}

\* guids of the feed entries (item.GUID), numbered
AllGUIDs == 1 .. (maxResults + ExtraEntries)

\* the feed with more entries than the cap: entries 1, 2, ..., in source order
LongFeed == [i \in 1 .. (maxResults + ExtraEntries) |-> i]

Min(x, y) == IF x < y THEN x ELSE y
Max(x, y) == IF x > y THEN x ELSE y
Range(s) == {s[i] : i \in DOMAIN s}
Distinct(s) == \A i, j \in DOMAIN s : s[i] = s[j] => i = j

(* Go map operations *)
MapPut(m, k, v) == [x \in DOMAIN m \cup {k} |-> IF x = k THEN v ELSE m[x]]
MapDelete(m, k) == [x \in DOMAIN m \ {k} |-> m[x]]
EmptyMap == [x \in {} |-> TRUE]

----------------------------------------------------------------------------
(* Locals of a goroutine *)

NoCycle == [feed |-> <<>>, ids |-> <<>>, t0 |-> -1, fresh |-> FALSE]

NoMarks == [x \in AllGUIDs |-> -1]

InitLoc ==
    [cmd     |-> "",        \* msg.Text
     t       |-> 0,         \* the time.Now() read by the current call
     chk     |-> 0,         \* when the current wasArticleSent call read the clock
     msgID   |-> 0,         \* sentMsg.MessageID
     items   |-> <<>>,      \* feed.Items
     i       |-> 0,         \* index of the range loop over feed.Items
     ret     |-> FALSE,     \* value returned by wasArticleSent
     arts    |-> <<>>,      \* articles collected by getHabrInfoSecFeed
     err     |-> FALSE,     \* err returned by getHabrInfoSecFeed
     j       |-> 0,         \* index of the range loop over articles
     out     |-> <<>>,      \* messages handed to bot.Send by this handler
     wake    |-> 0,         \* end of the current time.Sleep
     lastTry |-> -1,        \* history: time of the latest b.bot.Send of an article
     toks    |-> <<>>,      \* history: the pieces item.Description is made of
     desc    |-> <<>>,      \* item.Description, the bytes of the string
     summary |-> <<>>,      \* the string returned by trimSummary
     fetches |-> 0,         \* history: ParseURL calls of the current cycle
     cacheOps|-> 0,         \* history: cache calls of the current cycle
     t0      |-> -1,        \* history: start of the current cycle
     ret0    |-> NoMarks,   \* history: retMark at the start of the cycle
     lm0     |-> NoMarks,   \* history: lastMark at the start of the cycle
     fresh   |-> FALSE,     \* history: no feed id had an unexpired entry after the fetch
     prev    |-> NoCycle,   \* history: lastCycle at the start of the cycle
     snap    |-> EmptyMap]  \* history: articleTimestamps before the body ran

\* msg.Chat.ID: the chats messages come from
Consumers == {"A", "B"}

\* no message has arrived: per chat the number of Allow calls made for its
\* messages, the number of those granted and the time of the latest grant
NoChats == [c \in Consumers |-> [asked |-> 0, granted |-> 0, grantedAt |-> -1]]

\* a message handed to bot.Send
Msg(kind, id, ok) == [kind |-> kind, id |-> id, ok |-> ok]

\* an Article built from the feed entry guid, which was checked at time chk
\* and marked at time at
Article(guid, chk, at) == [id |-> guid, chk |-> chk, at |-> at]

Init ==
    /\ now = 0
    /\ ticks = 0
    /\ updates = 0
    /\ articles = EmptyMap
    /\ articleTimestamps = EmptyMap
    /\ articlesMux = "free"
    /\ limiter = [tokens |-> limiterBurst * limiterEvery, last |-> 0]
    /\ pc = [g \in Procs |-> IF g = Cleaner THEN "ticker" ELSE "idle"]
    /\ loc = [g \in Procs |-> InitLoc]
    /\ lastMark = [x \in AllGUIDs |-> -1]
    /\ retMark = [x \in AllGUIDs |-> -1]
    /\ lastCycle = NoCycle
    /\ lastGrant = -1
    /\ grants = 0
    /\ chatLog = NoChats
    /\ failedAt = [x \in AllGUIDs |-> -1]
    /\ ticker = cleanupEvery
    /\ crashed = FALSE

----------------------------------------------------------------------------
(* Groups of variables *)

Env == <<now, ticks, updates, ticker, crashed>>
Cache == <<articles, articleTimestamps, articlesMux>>
History == <<lastMark, retMark, lastCycle, failedAt>>
Grants == <<lastGrant, grants, chatLog>>

----------------------------------------------------------------------------
(* The clock *)

\* time passes by one of the given steps, at most max times
Tick(steps, max) ==
    /\ ticks < max
    /\ \E d \in steps : now' = now + d
    /\ ticks' = ticks + 1
    /\ UNCHANGED <<updates, ticker, crashed, Cache, History, limiter, Grants, pc, loc>>

----------------------------------------------------------------------------
(* The rate limiter: rate.NewLimiter(rate.Every(1*time.Second), 1).        *)
(* A token bucket of limiterBurst tokens, full at construction, refilled   *)
(* by one token per limiterEvery.  Tokens are counted in units of          *)
(* 1/limiterEvery token, so that one millisecond refills one unit and one  *)
(* token is limiterEvery units.                                            *)

\* the tokens in the bucket at time t
limiterAdvance(lim, t) ==
    LET last == IF t < lim.last THEN t ELSE lim.last
    IN  Min(limiterBurst * limiterEvery, lim.tokens + (t - last))

\* Limiter.Allow at time t: whether a token is available
limiterAllow(lim, t) == limiterAdvance(lim, t) >= limiterEvery

\* Allow that takes no token for a granted call
limiterAfterNoCharge(lim, t) ==
    IF limiterAllow(lim, t)
    THEN [tokens |-> limiterAdvance(lim, t), last |-> t]
    ELSE lim

\* the limiter after Allow at time t: a granted call takes one token
limiterAfter(lim, t) ==
    IF limiterAllow(lim, t)
    THEN [tokens |-> limiterAdvance(lim, t) - limiterEvery, last |-> t]
    ELSE lim

----------------------------------------------------------------------------
(* The dedup cache, first variant (main.go 104-143) *)

\* the comparison turned around: an entry younger than the retention
\* period counts as expired
ExpiredWhileFresh(timestamp, t) == t - timestamp < articleExpiry

\* the comparison off by one: an entry whose age equals the retention
\* period counts as expired
ExpiredAtBoundary(timestamp, t) == t - timestamp >= articleExpiry

\* time.Since(b.articleTimestamps[guid]) > b.articleExpiry
Expired(timestamp, t) == t - timestamp > articleExpiry

\* b.articles[guid] with the comma-ok form: exists, ok
Exists(guid) == guid \in DOMAIN articles /\ articles[guid]

\* the map's zero value for a missing key (time.Time{}), far in the past
Timestamp(guid) ==
    IF guid \in DOMAIN articleTimestamps THEN articleTimestamps[guid] ELSE -(2 * articleExpiry)

\* a check that counts an entry only from the instant after its mark
wasArticleSentResultLate(guid, t) ==
    Exists(guid) /\ ~Expired(Timestamp(guid), t) /\ Timestamp(guid) < t

\* the value wasArticleSent returns at time t
wasArticleSentResult(guid, t) == Exists(guid) /\ ~Expired(Timestamp(guid), t)

\* the sweep's test negated: the entries that have not expired
cleanupVictimsKept(t) == {x \in DOMAIN articleTimestamps : ~Expired(articleTimestamps[x], t)}

\* the sweep without its test: every entry is deleted
cleanupVictimsAll(t) == DOMAIN articleTimestamps

\* the sweep's loop never entered: nothing is deleted
cleanupVictimsNone(t) == {}

\* the guids cleanupExpiredArticles deletes at time t
cleanupVictims(t) == {x \in DOMAIN articleTimestamps : Expired(articleTimestamps[x], t)}

\* b.articlesMux.Lock()
Lock(g) ==
    /\ articlesMux = "free"
    /\ articlesMux' = g

\* defer b.articlesMux.Unlock()
Unlock(g) ==
    /\ articlesMux = g
    /\ articlesMux' = "free"

----------------------------------------------------------------------------
(* handleMessage (main.go 83-101) *)

\* the handler a command is dispatched to, as a position
Dispatch(cmd) ==
    CASE cmd = "/start" -> "welcome"
      [] cmd = "/help" -> "help"
      [] cmd \in {"/infosec", "/security"} -> "loading"
      [] OTHER -> "welcome"

\* the log of the chats after an Allow call for a message of chat c
Logged(c, ok) ==
    [chatLog EXCEPT ![c] = [asked |-> @.asked + 1,
                            granted |-> IF ok THEN @.granted + 1 ELSE @.granted,
                            grantedAt |-> IF ok THEN now ELSE @.grantedAt]]

\* handleMessage without the `return` after a denied Allow: the switch runs
\* for every message
handleMessageNoReturn(g, cmds, max) ==
    /\ pc[g] = "idle"
    /\ ~crashed
    /\ updates < max
    /\ updates' = updates + 1
    /\ limiter' = limiterAfter(limiter, now)
    /\ lastGrant' = IF limiterAllow(limiter, now) THEN now ELSE lastGrant
    /\ grants' = IF limiterAllow(limiter, now) THEN grants + 1 ELSE grants
    /\ chatLog' = Logged("A", limiterAllow(limiter, now))
    /\ \E c \in cmds :
         /\ pc' = [pc EXCEPT ![g] = Dispatch(c)]
         /\ loc' = [loc EXCEPT ![g] = [InitLoc EXCEPT !.cmd = c]]
    /\ UNCHANGED <<now, ticks, ticker, crashed, Cache, History>>

\* a limiter per chat: the message is let through if no message of the
\* same chat was let through less than a refill interval before
handleMessagePerChat(g, from, cmds, max) ==
    /\ pc[g] = "idle"
    /\ ~crashed
    /\ updates < max
    /\ updates' = updates + 1
    /\ \E chat \in from :
         /\ limiter' = IF (chatLog[chat].grantedAt = -1 \/ now - chatLog[chat].grantedAt >= limiterEvery) THEN [tokens |-> 0, last |-> now] ELSE limiter
         /\ lastGrant' = IF (chatLog[chat].grantedAt = -1 \/ now - chatLog[chat].grantedAt >= limiterEvery) THEN now ELSE lastGrant
         /\ grants' = IF (chatLog[chat].grantedAt = -1 \/ now - chatLog[chat].grantedAt >= limiterEvery) THEN grants + 1 ELSE grants
         /\ chatLog' = Logged(chat, (chatLog[chat].grantedAt = -1 \/ now - chatLog[chat].grantedAt >= limiterEvery))
         /\ \E c \in cmds :
              IF (chatLog[chat].grantedAt = -1 \/ now - chatLog[chat].grantedAt >= limiterEvery)
              THEN /\ pc' = [pc EXCEPT ![g] = Dispatch(c)]
                   /\ loc' = [loc EXCEPT ![g] = [InitLoc EXCEPT !.cmd = c]]
              ELSE /\ pc' = [pc EXCEPT ![g] = "idle"]
                   /\ loc' = [loc EXCEPT ![g] = InitLoc]
    /\ UNCHANGED <<now, ticks, ticker, crashed, Cache, History>>

\* Start: an update with a message of one of the chats in from arrives (at
\* most max of them) and `go b.handleMessage` runs:
\* if !b.limiter.Allow() { return }, then the switch on the text
handleMessageFrom(g, from, cmds, max) ==
    /\ pc[g] = "idle"
    /\ ~crashed
    /\ updates < max
    /\ updates' = updates + 1
    /\ \E chat \in from :
         /\ limiter' = limiterAfter(limiter, now)
         /\ lastGrant' = IF limiterAllow(limiter, now) THEN now ELSE lastGrant
         /\ grants' = IF limiterAllow(limiter, now) THEN grants + 1 ELSE grants
         /\ chatLog' = Logged(chat, limiterAllow(limiter, now))
         /\ \E c \in cmds :
              IF limiterAllow(limiter, now)
              THEN /\ pc' = [pc EXCEPT ![g] = Dispatch(c)]
                   /\ loc' = [loc EXCEPT ![g] = [InitLoc EXCEPT !.cmd = c]]
              ELSE /\ pc' = [pc EXCEPT ![g] = "idle"]
                   /\ loc' = [loc EXCEPT ![g] = InitLoc]
    /\ UNCHANGED <<now, ticks, ticker, crashed, Cache, History>>

\* the messages of one chat
handleMessage(g, cmds, max) == handleMessageFrom(g, {"A"}, cmds, max)

\* sendWelcomeMessage (145-151): one Send, an error is only logged
sendWelcomeMessage(g) ==
    /\ pc[g] = "welcome"
    /\ loc' = [loc EXCEPT ![g].out = Append(@, Msg("welcome", 0, TRUE))]
    /\ pc' = [pc EXCEPT ![g] = "done"]
    /\ UNCHANGED <<Env, Cache, History, limiter, Grants>>

\* sendHelpMessage (153-164)
sendHelpMessage(g) ==
    /\ pc[g] = "help"
    /\ loc' = [loc EXCEPT ![g].out = Append(@, Msg("help", 0, TRUE))]
    /\ pc' = [pc EXCEPT ![g] = "done"]
    /\ UNCHANGED <<Env, Cache, History, limiter, Grants>>

\* the handler called by handleMessage has returned, and handleMessage
\* returns: the goroutine ends
handlerReturn(g) ==
    /\ pc[g] = "done"
    /\ loc' = [loc EXCEPT ![g] = InitLoc]
    /\ pc' = [pc EXCEPT ![g] = "idle"]
    /\ UNCHANGED <<Env, Cache, History, limiter, Grants>>

----------------------------------------------------------------------------
(* sendInfoSecFeed, up to the call of getHabrInfoSecFeed (166-176) *)

\* getHabrInfoSecFeed taking articlesMux on entry, before ParseURL
SendLoadingLocked(g, oks) ==
    /\ pc[g] = "loading"
    /\ Lock(g)
    /\ \E ok \in oks :
         loc' = [loc EXCEPT ![g].out = Append(@, Msg("loading", 0, ok)),
                            ![g].msgID = IF ok THEN 1 ELSE 0,
                            ![g].t0 = now,
                            ![g].ret0 = retMark,
                            ![g].lm0 = lastMark,
                            ![g].prev = lastCycle]
    /\ pc' = [pc EXCEPT ![g] = "fetch"]
    /\ UNCHANGED <<Env, articles, articleTimestamps, History, limiter, Grants>>

\* the loading message is sent (or not: MessageID 0), then the cycle starts
SendLoading(g, oks) ==
    /\ pc[g] = "loading"
    /\ \E ok \in oks :
         loc' = [loc EXCEPT ![g].out = Append(@, Msg("loading", 0, ok)),
                            ![g].msgID = IF ok THEN 1 ELSE 0,
                            ![g].t0 = now,
                            ![g].ret0 = retMark,
                            ![g].lm0 = lastMark,
                            ![g].prev = lastCycle]
    /\ pc' = [pc EXCEPT ![g] = "fetch"]
    /\ UNCHANGED <<Env, Cache, History, limiter, Grants>>

----------------------------------------------------------------------------
(* getHabrInfoSecFeed (228-270) *)

\* feed, err := b.fp.ParseURL(url) with err == nil
FetchOK(g, feeds) ==
    /\ pc[g] = "fetch"
    /\ \E f \in feeds :
         loc' = [loc EXCEPT ![g].items = f, ![g].i = 1, ![g].arts = <<>>,
                            ![g].fetches = @ + 1,
                            ![g].fresh = \A x \in Range(f) : ~wasArticleSentResult(x, now)]
    /\ pc' = [pc EXCEPT ![g] = "loop"]
    /\ UNCHANGED <<Env, Cache, History, limiter, Grants>>

\* a failed ParseURL tried once more before the error is returned
FetchFailRetried(g) ==
    /\ pc[g] = "fetch"
    /\ loc' = [loc EXCEPT ![g].err = TRUE, ![g].arts = <<>>, ![g].fetches = @ + 2]
    /\ pc' = [pc EXCEPT ![g] = "got"]
    /\ UNCHANGED <<Env, Cache, History, limiter, Grants>>

\* ParseURL fails: return nil, err
FetchFail(g) ==
    /\ pc[g] = "fetch"
    /\ loc' = [loc EXCEPT ![g].err = TRUE, ![g].arts = <<>>, ![g].fetches = @ + 1]
    /\ pc' = [pc EXCEPT ![g] = "got"]
    /\ UNCHANGED <<Env, Cache, History, limiter, Grants>>

\* the guid of the entry the loop is at
Guid(g) == loc[g].items[loc[g].i]

\* wasArticleSent that renews the timestamp of an entry it finds in force
wasArticleSentRefreshing(g) ==
    /\ pc[g] = "loop"
    /\ loc[g].i <= Len(loc[g].items)
    /\ Lock(g)
    /\ IF Exists(Guid(g)) /\ Expired(Timestamp(Guid(g)), now)
       THEN /\ articles' = MapDelete(articles, Guid(g))
            /\ articleTimestamps' = MapDelete(articleTimestamps, Guid(g))
       ELSE /\ articles' = articles
            /\ articleTimestamps' =
                   IF Exists(Guid(g))
                   THEN [articleTimestamps EXCEPT ![Guid(g)] = now]
                   ELSE articleTimestamps
    /\ loc' = [loc EXCEPT ![g].ret = wasArticleSentResult(Guid(g), now),
                          ![g].chk = now,
                          ![g].cacheOps = @ + 1]
    /\ pc' = [pc EXCEPT ![g] = "wasU"]
    /\ UNCHANGED <<Env, History, limiter, Grants>>

\* wasArticleSent (104-120): Lock, then the body, run holding the lock
wasArticleSent(g) ==
    /\ pc[g] = "loop"
    /\ loc[g].i <= Len(loc[g].items)
    /\ Lock(g)
    /\ IF Exists(Guid(g)) /\ Expired(Timestamp(Guid(g)), now)
       THEN /\ articles' = MapDelete(articles, Guid(g))
            /\ articleTimestamps' = MapDelete(articleTimestamps, Guid(g))
       ELSE UNCHANGED <<articles, articleTimestamps>>
    /\ loc' = [loc EXCEPT ![g].ret = wasArticleSentResult(Guid(g), now),
                          ![g].chk = now,
                          ![g].cacheOps = @ + 1]
    /\ pc' = [pc EXCEPT ![g] = "wasU"]
    /\ UNCHANGED <<Env, History, limiter, Grants>>

\* wasArticleSent whose `return false` leaves without Unlock
WasUnlockOnHitOnly(g) ==
    /\ pc[g] = "wasU"
    /\ articlesMux = g
    /\ IF loc[g].ret
       THEN /\ articlesMux' = "free"
            /\ loc' = [loc EXCEPT ![g].i = @ + 1, ![g].ret = FALSE, ![g].chk = 0]
            /\ pc' = [pc EXCEPT ![g] = "loop"]
       ELSE /\ articlesMux' = articlesMux
            /\ loc' = loc
            /\ pc' = [pc EXCEPT ![g] = "markL"]
    /\ UNCHANGED <<Env, articles, articleTimestamps, History, limiter, Grants>>

\* wasArticleSent: the deferred Unlock, then `continue` or go on to mark
\* (locals that are dead from here on are reset)
WasUnlock(g) ==
    /\ pc[g] = "wasU"
    /\ Unlock(g)
    /\ IF loc[g].ret
       THEN /\ loc' = [loc EXCEPT ![g].i = @ + 1, ![g].ret = FALSE, ![g].chk = 0]
            /\ pc' = [pc EXCEPT ![g] = "loop"]
       ELSE /\ loc' = loc
            /\ pc' = [pc EXCEPT ![g] = "markL"]
    /\ UNCHANGED <<Env, articles, articleTimestamps, History, limiter, Grants>>

\* markArticleAsSent without `b.articles[guid] = true`: only the timestamp is
\* stored
markTimestampOnly(g) ==
    /\ pc[g] = "markL"
    /\ Lock(g)
    /\ articles' = articles
    /\ articleTimestamps' = MapPut(articleTimestamps, Guid(g), now)
    /\ lastMark' = [lastMark EXCEPT ![Guid(g)] = now]
    /\ loc' = [loc EXCEPT ![g].t = now, ![g].cacheOps = @ + 1]
    /\ pc' = [pc EXCEPT ![g] = "markU"]
    /\ UNCHANGED <<Env, retMark, lastCycle, failedAt, limiter, Grants>>

\* markArticleAsSent storing into fresh maps: the other entries are lost
markIntoFreshMaps(g) ==
    /\ pc[g] = "markL"
    /\ Lock(g)
    /\ articles' = MapPut(EmptyMap, Guid(g), TRUE)
    /\ articleTimestamps' = MapPut(EmptyMap, Guid(g), now)
    /\ lastMark' = [lastMark EXCEPT ![Guid(g)] = now]
    /\ loc' = [loc EXCEPT ![g].t = now, ![g].cacheOps = @ + 1]
    /\ pc' = [pc EXCEPT ![g] = "markU"]
    /\ UNCHANGED <<Env, retMark, lastCycle, failedAt, limiter, Grants>>

\* getHabrInfoSecFeed leaving the mark to the delivery: the call stores
\* nothing
markLeftToDelivery(g) ==
    /\ pc[g] = "markL"
    /\ Lock(g)
    /\ loc' = [loc EXCEPT ![g].t = now, ![g].cacheOps = @ + 1]
    /\ pc' = [pc EXCEPT ![g] = "markU"]
    /\ UNCHANGED <<Env, articles, articleTimestamps, History, limiter, Grants>>

\* markArticleAsSent (123-129): Lock, then the body
markArticleAsSent(g) ==
    /\ pc[g] = "markL"
    /\ Lock(g)
    /\ articles' = MapPut(articles, Guid(g), TRUE)
    /\ articleTimestamps' = MapPut(articleTimestamps, Guid(g), now)
    /\ lastMark' = [lastMark EXCEPT ![Guid(g)] = now]
    /\ loc' = [loc EXCEPT ![g].t = now, ![g].cacheOps = @ + 1]
    /\ pc' = [pc EXCEPT ![g] = "markU"]
    /\ UNCHANGED <<Env, retMark, lastCycle, failedAt, limiter, Grants>>

\* the cap tested one article late
CapReachedLate(n) == n > maxResults

\* if len(articles) >= 10 { break }
CapReached(n) == n >= maxResults

\* the articles once the entry the loop is at is appended
Collected(g) == Append(loc[g].arts, Article(Guid(g), loc[g].chk, loc[g].t))

\* the cap counting the entries looked at, skipped ones included
MarkUnlockCountingSkipped(g) ==
    /\ pc[g] = "markU"
    /\ Unlock(g)
    /\ loc' = [loc EXCEPT ![g].arts = Collected(g),
                          ![g].t = 0, ![g].chk = 0,
                          ![g].i = IF CapReached(loc[g].i) THEN @ ELSE @ + 1]
    /\ pc' = [pc EXCEPT ![g] = IF CapReached(loc[g].i) THEN "ret" ELSE "loop"]
    /\ UNCHANGED <<Env, articles, articleTimestamps, History, limiter, Grants>>

\* markArticleAsSent: the deferred Unlock; then the Article is built and
\* appended, and the loop breaks at maxResults articles
MarkUnlock(g) ==
    /\ pc[g] = "markU"
    /\ Unlock(g)
    /\ loc' = [loc EXCEPT ![g].arts = Collected(g),
                          ![g].t = 0, ![g].chk = 0,
                          ![g].i = IF CapReached(Len(Collected(g))) THEN @ ELSE @ + 1]
    /\ pc' = [pc EXCEPT ![g] = IF CapReached(Len(Collected(g))) THEN "ret" ELSE "loop"]
    /\ UNCHANGED <<Env, articles, articleTimestamps, History, limiter, Grants>>

\* the range loop is over
LoopEnd(g) ==
    /\ pc[g] = "loop"
    /\ loc[g].i > Len(loc[g].items)
    /\ pc' = [pc EXCEPT ![g] = "ret"]
    /\ UNCHANGED <<Env, Cache, History, limiter, Grants, loc>>

\* the ids of a sequence of articles
Ids(arts) == [k \in DOMAIN arts |-> arts[k].id]

\* the set's greatest element, -1 for the empty set
SetMax(S) == IF S = {} THEN -1 ELSE CHOOSE m \in S : \A n \in S : n <= m

\* when the articles' cycle marked guid x, -1 if it did not
MarkOf(arts, x) == SetMax({arts[k].at : k \in {n \in DOMAIN arts : arts[n].id = x}})

\* return articles, nil
Return(g) ==
    /\ pc[g] = "ret"
    /\ retMark' = [x \in AllGUIDs |-> Max(retMark[x], MarkOf(loc[g].arts, x))]
    /\ lastCycle' = [feed |-> loc[g].items, ids |-> Ids(loc[g].arts),
                     t0 |-> loc[g].t0, fresh |-> loc[g].fresh]
    /\ pc' = [pc EXCEPT ![g] = "got"]
    /\ UNCHANGED <<Env, Cache, lastMark, failedAt, limiter, Grants, loc>>

----------------------------------------------------------------------------
(* sendInfoSecFeed after getHabrInfoSecFeed returned (177-226) *)

\* the loading message is deleted if it was sent
DeleteLoading(g) == IF loc[g].msgID # 0 THEN <<Msg("delete", 0, TRUE)>> ELSE <<>>

\* err != nil: the error message, the loading message deleted, return
GotErr(g) ==
    /\ pc[g] = "got"
    /\ loc[g].err
    /\ loc' = [loc EXCEPT ![g].out = (@ \o <<Msg("error", 0, TRUE)>>) \o DeleteLoading(g)]
    /\ pc' = [pc EXCEPT ![g] = "done"]
    /\ UNCHANGED <<Env, Cache, History, limiter, Grants>>

\* an empty result reported with the text of the fetch error
GotEmptyAsError(g) ==
    /\ pc[g] = "got"
    /\ ~loc[g].err
    /\ loc[g].arts = <<>>
    /\ loc' = [loc EXCEPT ![g].out = (@ \o DeleteLoading(g)) \o <<Msg("error", 0, TRUE)>>]
    /\ pc' = [pc EXCEPT ![g] = "done"]
    /\ UNCHANGED <<Env, Cache, History, limiter, Grants>>

\* len(articles) == 0: the loading message deleted, "no new articles", return
GotEmpty(g) ==
    /\ pc[g] = "got"
    /\ ~loc[g].err
    /\ loc[g].arts = <<>>
    /\ loc' = [loc EXCEPT ![g].out = (@ \o DeleteLoading(g)) \o <<Msg("nonew", 0, TRUE)>>]
    /\ pc' = [pc EXCEPT ![g] = "done"]
    /\ UNCHANGED <<Env, Cache, History, limiter, Grants>>

\* articles to send: the loading message deleted, the send loop starts
GotArticles(g) ==
    /\ pc[g] = "got"
    /\ ~loc[g].err
    /\ loc[g].arts # <<>>
    /\ loc' = [loc EXCEPT ![g].out = @ \o DeleteLoading(g), ![g].j = 1]
    /\ pc' = [pc EXCEPT ![g] = "send"]
    /\ UNCHANGED <<Env, Cache, History, limiter, Grants>>

\* the article the send loop is at
Sending(g) == loc[g].arts[loc[g].j]

\* the send loop with `return` in the place of `continue`: a failed Send
\* ends the delivery
SendArticleAbort(g, oks) ==
    /\ pc[g] = "send"
    /\ loc[g].j <= Len(loc[g].arts)
    /\ \E ok \in oks :
         /\ loc' = [loc EXCEPT ![g].out = Append(@, Msg("article", Sending(g).id, ok)),
                               ![g].wake = IF ok THEN now + sendDelay ELSE @,
                               ![g].lastTry = now,
                               ![g].j = IF ok THEN @ ELSE Len(loc[g].arts) + 1]
         /\ pc' = [pc EXCEPT ![g] = IF ok THEN "sleep" ELSE "send"]
         /\ failedAt' = IF ok THEN failedAt
                        ELSE [failedAt EXCEPT ![Sending(g).id] = Max(@, Sending(g).at)]
    /\ UNCHANGED <<Env, Cache, lastMark, retMark, lastCycle, limiter, Grants>>

\* b.bot.Send(articleMsg): on an error `continue`, else time.Sleep
SendArticle(g, oks) ==
    /\ pc[g] = "send"
    /\ loc[g].j <= Len(loc[g].arts)
    /\ \E ok \in oks :
         /\ loc' = [loc EXCEPT ![g].out = Append(@, Msg("article", Sending(g).id, ok)),
                               ![g].wake = IF ok THEN now + sendDelay ELSE @,
                               ![g].lastTry = now,
                               ![g].j = IF ok THEN @ ELSE @ + 1]
         /\ pc' = [pc EXCEPT ![g] = IF ok THEN "sleep" ELSE "send"]
         /\ failedAt' = IF ok THEN failedAt
                        ELSE [failedAt EXCEPT ![Sending(g).id] = Max(@, Sending(g).at)]
    /\ UNCHANGED <<Env, Cache, lastMark, retMark, lastCycle, limiter, Grants>>

\* the clock reaches the end of the sleep of g
Elapse(g) ==
    /\ pc[g] \in {"sleep", "v2sleep"}
    /\ now < loc[g].wake
    /\ now' = loc[g].wake
    /\ UNCHANGED <<ticks, updates, ticker, crashed, Cache, History, limiter, Grants, pc, loc>>

\* time.Sleep(500 * time.Millisecond) is over
Sleep(g) ==
    /\ pc[g] = "sleep"
    /\ now >= loc[g].wake
    /\ loc' = [loc EXCEPT ![g].j = @ + 1]
    /\ pc' = [pc EXCEPT ![g] = "send"]
    /\ UNCHANGED <<Env, Cache, History, limiter, Grants>>

\* the send loop is over: handleMessage returns
SendEnd(g) ==
    /\ pc[g] = "send"
    /\ loc[g].j > Len(loc[g].arts)
    /\ loc' = [loc EXCEPT ![g] = InitLoc]
    /\ pc' = [pc EXCEPT ![g] = "idle"]
    /\ UNCHANGED <<Env, Cache, History, limiter, Grants>>

----------------------------------------------------------------------------
(* The cleanup goroutine of Start (59-66) and cleanupExpiredArticles (132-143) *)

\* the ticker's next tick after one is taken at time t: ticks the goroutine
\* was too slow for are dropped
tickerNext(t) == ticker + cleanupEvery * (1 + (t - ticker) \div cleanupEvery)

\* for range ticker.C: a tick is received; cleanupExpiredArticles: Lock, then
\* the body
cleanupExpiredArticles(g) ==
    /\ pc[g] = "ticker"
    /\ now >= ticker
    /\ ticker' = tickerNext(now)
    /\ Lock(g)
    /\ articles' = [x \in DOMAIN articles \ cleanupVictims(now) |-> articles[x]]
    /\ articleTimestamps' = [x \in DOMAIN articleTimestamps \ cleanupVictims(now) |->
                               articleTimestamps[x]]
    /\ loc' = [loc EXCEPT ![g].t = now, ![g].snap = articleTimestamps]
    /\ pc' = [pc EXCEPT ![g] = "cleanU"]
    /\ UNCHANGED <<now, ticks, updates, crashed, History, limiter, Grants>>

\* cleanupExpiredArticles: the deferred Unlock, then the log line
CleanUnlock(g) ==
    /\ pc[g] = "cleanU"
    /\ Unlock(g)
    /\ loc' = [loc EXCEPT ![g] = InitLoc]
    /\ pc' = [pc EXCEPT ![g] = "ticker"]
    /\ UNCHANGED <<Env, articles, articleTimestamps, History, limiter, Grants>>

----------------------------------------------------------------------------
(* The second variant of the bot (main.go 305-521): Bot.articles is a bare *)
(* map, read and written by getHabrInfoSecFeed with no lock and never      *)
(* expired.  A map access takes time: it begins and it ends.  An access    *)
(* that overlaps a write of another goroutine is a data race: the runtime  *)
(* aborts the process ("concurrent map read and map write") or the access  *)
(* goes on with whatever it finds.                                         *)

\* another goroutine is writing the map
V2Writing(g) == \E h \in Handlers \ {g} : pc[h] = "v2wr"

\* another goroutine is reading or writing the map
V2Busy(g) == \E h \in Handlers \ {g} : pc[h] \in {"v2rd", "v2wr"}

\* fatal error: concurrent map access
V2Crash ==
    /\ crashed' = TRUE
    /\ UNCHANGED <<now, ticks, updates, ticker, Cache, History, limiter, Grants, pc, loc>>

\* sendInfoSecFeed (401-409): the loading message; on an error, return
V2SendLoading(g, oks) ==
    /\ pc[g] = "loading"
    /\ ~crashed
    /\ \E ok \in oks :
         IF ok
         THEN /\ loc' = [loc EXCEPT ![g].out = Append(@, Msg("loading", 0, TRUE)),
                                    ![g].msgID = 1, ![g].t0 = now]
              /\ pc' = [pc EXCEPT ![g] = "v2fetch"]
         ELSE /\ loc' = [loc EXCEPT ![g] = InitLoc]
              /\ pc' = [pc EXCEPT ![g] = "idle"]
    /\ UNCHANGED <<Env, Cache, History, limiter, Grants>>

\* getHabrInfoSecFeed (446-455): ParseURL succeeds
V2FetchOK(g, feeds) ==
    /\ pc[g] = "v2fetch"
    /\ ~crashed
    /\ \E f \in feeds :
         loc' = [loc EXCEPT ![g].items = f, ![g].i = 1, ![g].arts = <<>>,
                            ![g].fetches = @ + 1]
    /\ pc' = [pc EXCEPT ![g] = "v2loop"]
    /\ UNCHANGED <<Env, Cache, History, limiter, Grants>>

\* ParseURL fails: sendInfoSecFeed sends the error message and returns (410-414)
V2FetchFail(g) ==
    /\ pc[g] = "v2fetch"
    /\ ~crashed
    /\ loc' = [loc EXCEPT ![g] = InitLoc]
    /\ pc' = [pc EXCEPT ![g] = "idle"]
    /\ UNCHANGED <<Env, Cache, History, limiter, Grants>>

\* if b.articles[item.GUID]: the read begins
V2ReadBegin(g) ==
    /\ pc[g] = "v2loop"
    /\ ~crashed
    /\ loc[g].i <= Len(loc[g].items)
    /\ pc' = [pc EXCEPT ![g] = "v2rd"]
    /\ UNCHANGED <<Env, Cache, History, limiter, Grants, loc>>

\* the read ends with the value v: `continue` or go on to mark
V2Read(g, v) ==
    /\ loc' = [loc EXCEPT ![g].ret = v, ![g].t = now, ![g].chk = now, ![g].cacheOps = @ + 1,
                          ![g].i = IF v THEN @ + 1 ELSE @]
    /\ pc' = [pc EXCEPT ![g] = IF v THEN "v2loop" ELSE "v2mark"]
    /\ UNCHANGED <<Env, Cache, History, limiter, Grants>>

\* the read ends: if it overlapped a write of another goroutine, the runtime
\* aborts or the read yields either value
V2ReadEnd(g) ==
    /\ pc[g] = "v2rd"
    /\ ~crashed
    /\ IF V2Writing(g)
       THEN V2Crash \/ \E v \in BOOLEAN : V2Read(g, v)
       ELSE V2Read(g, Exists(Guid(g)))

\* b.articles[item.GUID] = true: the write begins
V2WriteBegin(g) ==
    /\ pc[g] = "v2mark"
    /\ ~crashed
    /\ pc' = [pc EXCEPT ![g] = "v2wr"]
    /\ UNCHANGED <<Env, Cache, History, limiter, Grants, loc>>

\* the write ends; then the Article is built and appended, and the loop
\* breaks at maxResults articles
V2Write(g) ==
    /\ articles' = MapPut(articles, Guid(g), TRUE)
    /\ lastMark' = [lastMark EXCEPT ![Guid(g)] = now]
    /\ loc' = [loc EXCEPT ![g].t = now, ![g].cacheOps = @ + 1,
                          ![g].arts = Append(@, Article(Guid(g), loc[g].chk, now)),
                          ![g].i = IF CapReached(Len(loc[g].arts) + 1) THEN @ ELSE @ + 1]
    /\ pc' = [pc EXCEPT ![g] = IF CapReached(Len(loc[g].arts) + 1) THEN "v2ret" ELSE "v2loop"]
    /\ UNCHANGED <<Env, articleTimestamps, articlesMux, retMark, lastCycle, failedAt, limiter, Grants>>

\* the write ends: if it overlapped an access of another goroutine, the
\* runtime aborts or the write goes through
V2WriteEnd(g) ==
    /\ pc[g] = "v2wr"
    /\ ~crashed
    /\ IF V2Busy(g)
       THEN V2Crash \/ V2Write(g)
       ELSE V2Write(g)

\* the range loop is over
V2LoopEnd(g) ==
    /\ pc[g] = "v2loop"
    /\ ~crashed
    /\ loc[g].i > Len(loc[g].items)
    /\ pc' = [pc EXCEPT ![g] = "v2ret"]
    /\ UNCHANGED <<Env, Cache, History, limiter, Grants, loc>>

\* return articles, nil
V2Return(g) ==
    /\ pc[g] = "v2ret"
    /\ ~crashed
    /\ pc' = [pc EXCEPT ![g] = "v2got"]
    /\ UNCHANGED <<Env, Cache, History, limiter, Grants, loc>>

\* len(articles) == 0: "no new articles", return (416-420)
V2GotEmpty(g) ==
    /\ pc[g] = "v2got"
    /\ ~crashed
    /\ loc[g].arts = <<>>
    /\ loc' = [loc EXCEPT ![g] = InitLoc]
    /\ pc' = [pc EXCEPT ![g] = "idle"]
    /\ UNCHANGED <<Env, Cache, History, limiter, Grants>>

\* the loading message is deleted and the send loop starts (422-427)
V2GotArticles(g) ==
    /\ pc[g] = "v2got"
    /\ ~crashed
    /\ loc[g].arts # <<>>
    /\ loc' = [loc EXCEPT ![g].out = Append(@, Msg("delete", 0, TRUE)), ![g].j = 1]
    /\ pc' = [pc EXCEPT ![g] = "v2send"]
    /\ UNCHANGED <<Env, Cache, History, limiter, Grants>>

\* b.bot.Send(articleMsg): an error is logged; then time.Sleep either way (427-443)
V2SendArticle(g, oks) ==
    /\ pc[g] = "v2send"
    /\ ~crashed
    /\ loc[g].j <= Len(loc[g].arts)
    /\ \E ok \in oks :
         loc' = [loc EXCEPT ![g].out = Append(@, Msg("article", loc[g].arts[loc[g].j].id, ok)),
                            ![g].wake = now + sendDelay]
    /\ pc' = [pc EXCEPT ![g] = "v2sleep"]
    /\ UNCHANGED <<Env, Cache, History, limiter, Grants>>

\* time.Sleep(500 * time.Millisecond) is over
V2Sleep(g) ==
    /\ pc[g] = "v2sleep"
    /\ ~crashed
    /\ now >= loc[g].wake
    /\ loc' = [loc EXCEPT ![g].j = @ + 1]
    /\ pc' = [pc EXCEPT ![g] = "v2send"]
    /\ UNCHANGED <<Env, Cache, History, limiter, Grants>>

\* the send loop is over: handleMessage returns
V2SendEnd(g) ==
    /\ pc[g] = "v2send"
    /\ ~crashed
    /\ loc[g].j > Len(loc[g].arts)
    /\ loc' = [loc EXCEPT ![g] = InitLoc]
    /\ pc' = [pc EXCEPT ![g] = "idle"]
    /\ UNCHANGED <<Env, Cache, History, limiter, Grants>>

----------------------------------------------------------------------------
(* Specifications *)

\* the /start and /help replies
ReplyStep(g) ==
    \/ sendWelcomeMessage(g)
    \/ sendHelpMessage(g)

\* one step of a fetch cycle whose fetch succeeds
CycleStep(g, feeds, oks) ==
    \/ SendLoading(g, oks)
    \/ FetchOK(g, feeds)
    \/ wasArticleSent(g)
    \/ WasUnlock(g)
    \/ markArticleAsSent(g)
    \/ MarkUnlock(g)
    \/ LoopEnd(g)
    \/ Return(g)

\* one step of the delivery of a cycle's result
DeliverStep(g, oks) ==
    \/ GotEmpty(g)
    \/ GotArticles(g)
    \/ SendArticle(g, oks)
    \/ Sleep(g)
    \/ SendEnd(g)

\* one step of a delivery in which the Telegram API rejects every article:
\* the send loop never sleeps, so the delivery takes no time
RejectedStep(g) ==
    \/ GotEmpty(g)
    \/ GotArticles(g)
    \/ SendArticle(g, {FALSE})
    \/ SendEnd(g)

\* a failing fetch and its report
FailStep(g) ==
    \/ FetchFail(g)
    \/ GotErr(g)

\* one step of the cleanup goroutine
CleanerStep ==
    \/ cleanupExpiredArticles(Cleaner)
    \/ CleanUnlock(Cleaner)

\* the feeds the source returns in the concurrent specification
Feeds == {<<1>>, <<2>>}

\* the steps of the clock in the concurrent specification
Steps == {25 * Hour}

Next ==
    \/ \E g \in Handlers :
         \/ handleMessage(g, {"/infosec"}, MaxUpdates)
         \/ CycleStep(g, Feeds, {TRUE})
         \/ DeliverStep(g, {TRUE})
         \/ handlerReturn(g)
    \/ CleanerStep
    \/ Tick(Steps, MaxTicks)

\* two handler goroutines, the cleanup goroutine and the clock
Spec == Init /\ [][Next]_vars

\* one step of a handler of the second variant
V2Step(g, feeds, oks) ==
    \/ V2SendLoading(g, oks)
    \/ V2FetchOK(g, feeds)
    \/ V2FetchFail(g)
    \/ V2ReadBegin(g)
    \/ V2ReadEnd(g)
    \/ V2WriteBegin(g)
    \/ V2WriteEnd(g)
    \/ V2LoopEnd(g)
    \/ V2Return(g)
    \/ V2GotEmpty(g)
    \/ V2GotArticles(g)
    \/ V2SendArticle(g, oks)
    \/ V2Sleep(g)
    \/ V2SendEnd(g)

NextV2 ==
    \/ \E g \in Handlers :
         \/ handleMessage(g, {"/infosec", "/security"}, MaxUpdates)
         \/ V2Step(g, Feeds, BOOLEAN)
         \/ Elapse(g)
    \/ Tick({limiterEvery}, MaxTicks)

\* the second variant: two handler goroutines and the clock
SpecV2 == Init /\ [][NextV2]_vars

\* the feeds of the sequential specification: longer than the cap, shorter,
\* and with a repeated guid
CapFeeds == {LongFeed, <<1, 2>>, <<1, 1>>}
CapSteps == {limiterEvery, 25 * Hour}

NextCap ==
    \/ handleMessage("h1", {"/infosec"}, MaxUpdates)
    \/ CycleStep("h1", CapFeeds, {TRUE})
    \/ RejectedStep("h1")
    \/ handlerReturn("h1")
    \/ CleanerStep
    \/ Tick(CapSteps, MaxTicks)

\* one handler goroutine and the cleanup goroutine: the fetch cycles run one
\* after another
SpecCap == Init /\ [][NextCap]_vars

\* the feed and the clock steps of the expiry specification
SweepFeeds == {<<1, 2>>}
SweepSteps == {1 * Hour, 24 * Hour}
SweepTicks == MaxTicks + 1

NextSweep ==
    \/ handleMessage("h1", {"/infosec"}, MaxUpdates)
    \/ CycleStep("h1", SweepFeeds, {TRUE})
    \/ RejectedStep("h1")
    \/ handlerReturn("h1")
    \/ CleanerStep
    \/ Tick(SweepSteps, SweepTicks)

\* one handler goroutine and the cleanup goroutine, the clock stepping by
\* hours and days
SpecSweep == Init /\ [][NextSweep]_vars

\* the feeds of the delivery specification
DeliverFeeds == {<<>>, <<1, 2>>, <<1, 2, 3>>}

NextDeliver ==
    \/ handleMessage("h1", {"/infosec", "/security"}, MaxUpdates)
    \/ CycleStep("h1", DeliverFeeds, BOOLEAN)
    \/ FailStep("h1")
    \/ DeliverStep("h1", BOOLEAN)
    \/ handlerReturn("h1")
    \/ Elapse("h1")
    \/ Tick({limiterEvery}, MaxTicks)

\* one handler goroutine; the feed source and the Telegram API may fail
SpecDeliver == Init /\ [][NextDeliver]_vars

NextLimiter ==
    \/ \E g \in Handlers :
         \/ handleMessage(g, {"/start", "/help", "hello"}, MaxCalls)
         \/ ReplyStep(g)
         \/ handlerReturn(g)
    \/ Tick({sendDelay}, FineTicks)

\* two handler goroutines answering /start, /help and free text
SpecLimiter == Init /\ [][NextLimiter]_vars

----------------------------------------------------------------------------
(* Properties *)

\* the distance of two times
Dist(a, b) == IF a > b THEN a - b ELSE b - a

\* getHabrInfoSecFeed of handler g is running
InCycle(g) == pc[g] \in {"loop", "wasU", "markL", "markU", "ret"}

\* goroutine g is inside an access to the cache maps
Accessing(g) == pc[g] \in {"wasU", "markU", "cleanU", "v2rd", "v2wr"}

\* C1: when fetch cycles run concurrently on a feed that holds an id, only
\* one of them classifies the id as new: no two cycles that are running at
\* the same time have both collected the same id from marks less than a
\* retention period apart.  The check and the mark of getHabrInfoSecFeed
\* (main.go 240, 245) take the lock one after the other, so this fails.
C1_OneCycleCollects ==
    \A g, h \in Handlers :
        (g # h /\ InCycle(g) /\ InCycle(h)) =>
            \A x \in AllGUIDs :
                (MarkOf(loc[g].arts, x) >= 0 /\ MarkOf(loc[h].arts, x) >= 0) =>
                    Dist(MarkOf(loc[g].arts, x), MarkOf(loc[h].arts, x)) > articleExpiry

\* C2: once a cycle has returned an article with id x that it marked at time
\* T, a cycle that starts after that return and checks x at a time T' with
\* T' - T <= articleExpiry gets true from wasArticleSent and does not
\* collect x.
C2_NoRedelivery ==
    \A g \in Handlers :
        /\ (pc[g] = "wasU" /\ loc[g].ret0[Guid(g)] >= 0
               /\ loc[g].chk - loc[g].ret0[Guid(g)] <= articleExpiry) => loc[g].ret
        /\ \A k \in DOMAIN loc[g].arts :
               ~(/\ loc[g].ret0[loc[g].arts[k].id] >= 0
                 /\ loc[g].arts[k].chk - loc[g].ret0[loc[g].arts[k].id] <= articleExpiry)

\* a cycle that started after x was returned has returned without x, within
\* the retention period of the mark
C2_Witness ==
    \E g \in Handlers : \E x \in AllGUIDs :
        /\ pc[g] = "got" /\ ~loc[g].err
        /\ x \in Range(loc[g].items)
        /\ loc[g].ret0[x] >= 0
        /\ now - loc[g].ret0[x] <= articleExpiry
        /\ x \notin Range(Ids(loc[g].arts))

\* handler g has got the result of a cycle that ran the feed of the cycle
\* before it again: that cycle met none of the feed's ids in the cache, and
\* less than a retention period has passed since it started
SecondRun(g) ==
    /\ pc[g] = "got" /\ ~loc[g].err
    /\ loc[g].items # <<>>
    /\ loc[g].prev.feed = loc[g].items
    /\ loc[g].prev.fresh
    /\ now - loc[g].prev.t0 <= articleExpiry

\* C3 as stated: the fetch cycle run twice in succession on a feed of N
\* entries (with distinct ids, none of them in the cache) returns all N
\* the first time and none the second time.
C3_AllThenNone ==
    \A g \in Handlers :
        (SecondRun(g) /\ Distinct(loc[g].items)) =>
            (loc[g].prev.ids = loc[g].items /\ loc[g].arts = <<>>)

\* C3, for N up to the cap: the fetch cycle run twice in succession on a
\* feed of N <= maxResults entries with distinct ids, none of them in the
\* cache, returns all N the first time and none the second time.
C3_AllThenNoneUpToCap ==
    \A g \in Handlers :
        (SecondRun(g) /\ Distinct(loc[g].items) /\ Len(loc[g].items) <= maxResults) =>
            (loc[g].prev.ids = loc[g].items /\ loc[g].arts = <<>>)

\* a second run on a feed of two entries has returned nothing
C3_Witness ==
    \E g \in Handlers :
        /\ SecondRun(g) /\ Distinct(loc[g].items)
        /\ Len(loc[g].items) = 2
        /\ loc[g].prev.ids = loc[g].items
        /\ loc[g].arts = <<>>

\* C5: every access to the cache is made holding the lock, so no two
\* goroutines are ever inside an access to the cache maps at the same time.
\* The second getHabrInfoSecFeed (main.go 446-488) takes no lock.
C5_ExclusiveAccess == Cardinality({g \in Procs : Accessing(g)}) <= 1


\* handler g has got the result of a cycle on a feed of more than
\* maxResults entries with distinct ids, none of which the cycle met in the
\* cache
LongRun(g) ==
    /\ pc[g] = "got" /\ ~loc[g].err
    /\ Len(loc[g].items) > maxResults
    /\ Distinct(loc[g].items)
    /\ loc[g].fresh

C4_Retention ==
    /\ DOMAIN articles = DOMAIN articleTimestamps
    /\ \A x \in DOMAIN articleTimestamps : articleTimestamps[x] = lastMark[x]
    /\ \A g \in Handlers :
          (pc[g] = "wasU" /\ lastMark[Guid(g)] >= 0) =>
              IF loc[g].chk - lastMark[Guid(g)] <= articleExpiry
              THEN loc[g].ret /\ Exists(Guid(g))
              ELSE /\ ~loc[g].ret
                   /\ Guid(g) \notin DOMAIN articles
                   /\ Guid(g) \notin DOMAIN articleTimestamps

\* wasArticleSent has met an entry older than the retention period, which
\* no sweep had removed, and has removed it
C4_Witness ==
    \E g \in Handlers :
        /\ pc[g] = "wasU"
        /\ lastMark[Guid(g)] >= 0
        /\ loc[g].chk - lastMark[Guid(g)] > articleExpiry
        /\ ticker = cleanupEvery
        /\ ~loc[g].ret
        /\ Guid(g) \notin DOMAIN articleTimestamps

\* C7: a sweep that reads the clock at t deletes exactly the entries with
\* t - markedAt > articleExpiry; every other entry stays, with its time
\* unchanged (an entry whose age is exactly articleExpiry stays).
C7_SweepExact ==
    pc[Cleaner] = "cleanU" =>
        LET snap == loc[Cleaner].snap
            t == loc[Cleaner].t
        IN  /\ DOMAIN articleTimestamps = {x \in DOMAIN snap : t - snap[x] <= articleExpiry}
            /\ \A x \in DOMAIN articleTimestamps : articleTimestamps[x] = snap[x]
            /\ DOMAIN articles = DOMAIN articleTimestamps

\* a sweep has removed an entry older than the retention period and kept an
\* entry whose age is exactly the retention period
C7_Witness ==
    /\ pc[Cleaner] = "cleanU"
    /\ \E x, y \in DOMAIN loc[Cleaner].snap :
          /\ loc[Cleaner].t - loc[Cleaner].snap[x] > articleExpiry
          /\ loc[Cleaner].t - loc[Cleaner].snap[y] = articleExpiry
          /\ x \notin DOMAIN articleTimestamps
          /\ y \in DOMAIN articleTimestamps

\* C8: when ParseURL fails, getHabrInfoSecFeed returns the error after one
\* fetch and with no articles, it has made no call on the cache and marked
\* no id, it holds no lock, and the process goes on.
C8_FetchFailure ==
    \A g \in Handlers :
        (pc[g] = "got" /\ loc[g].err) =>
            /\ loc[g].fetches = 1
            /\ loc[g].arts = <<>>
            /\ loc[g].cacheOps = 0
            /\ lastMark = loc[g].lm0
            /\ articlesMux # g
            /\ ~crashed

\* a fetch has failed in a cycle that follows a cycle which filled the cache
C8_Witness ==
    \E g \in Handlers :
        /\ pc[g] = "got" /\ loc[g].err
        /\ loc[g].fetches = 1
        /\ DOMAIN articles # {}
        /\ \A x \in DOMAIN articles : Timestamp(x) = loc[g].lm0[x]

\* the article messages among the messages a handler sent
ArticleMsgs(out) == SelectSeq(out, LAMBDA m : m.kind = "article")

\* the number of articles the send loop of g is through with
Done(g) == IF pc[g] = "sleep" THEN loc[g].j ELSE loc[g].j - 1

\* C9: in the send loop every article of the batch is attempted once, in
\* order, whether or not earlier sends failed, and the loop ends only after
\* the last one; an article whose send failed stays in the cache with its
\* mark, and a later wasArticleSent within the retention period of that
\* mark returns true.
C9_DeliveryContinues ==
    /\ \A g \in Handlers :
          /\ pc[g] \in {"send", "sleep"} =>
                /\ Done(g) <= Len(loc[g].arts)
                /\ Len(ArticleMsgs(loc[g].out)) = Done(g)
                /\ \A k \in 1 .. Done(g) :
                      ArticleMsgs(loc[g].out)[k].id = loc[g].arts[k].id
          /\ (pc[g] = "wasU" /\ failedAt[Guid(g)] >= 0
                 /\ loc[g].chk - failedAt[Guid(g)] <= articleExpiry) => loc[g].ret
    /\ \A x \in AllGUIDs :
          (failedAt[x] >= 0 /\ now - failedAt[x] <= articleExpiry) =>
              (Exists(x) /\ Timestamp(x) >= failedAt[x])

\* the send loop is over: the first send failed, the rest were attempted,
\* and the failed article is still in the cache
C9_Witness ==
    \E g \in Handlers :
        /\ pc[g] = "send"
        /\ loc[g].j > Len(loc[g].arts)
        /\ Len(loc[g].arts) >= 2
        /\ Len(ArticleMsgs(loc[g].out)) = Len(loc[g].arts)
        /\ ~ArticleMsgs(loc[g].out)[1].ok
        /\ Exists(loc[g].arts[1].id)

\* the step is a call of Allow
AllowCalled == updates' = updates + 1

\* the step is a call of Allow that returns true
AllowGranted == AllowCalled /\ grants' = grants + 1

\* C10: the bucket is full at the start, and of the Allow calls made in the
\* first refill interval exactly one returns true; at any time, Allow
\* returns true if and only if no call was granted less than a refill
\* interval before, so of the calls made within less than a refill interval
\* of a granted one only that one returns true.
C10_OneGrantPerInterval ==
    /\ []((updates >= 1 /\ now < limiterEvery) => grants = 1)
    /\ [][AllowCalled =>
            /\ grants' \in {grants, grants + 1}
            /\ AllowGranted <=> (lastGrant = -1 \/ now - lastGrant >= limiterEvery)]_vars

\* three calls were made within a refill interval and one was granted
C10_Witness ==
    /\ updates >= 3
    /\ grants = 1
    /\ now - lastGrant < limiterEvery

\* the step is a call of Allow that returns false
AllowDenied == AllowCalled /\ grants' = grants

\* C11: a message for which Allow returns false is dropped: the step sends
\* nothing, starts no handler and no fetch, leaves no goroutine behind and
\* changes neither the cache nor the limiter; and sendInfoSecFeed is entered
\* only in a step in which Allow returns true, the fetch only from
\* sendInfoSecFeed.
C11_DeniedDropped ==
    [][/\ AllowDenied => UNCHANGED <<pc, loc, Cache, History, limiter, lastGrant>>
       /\ \A g \in Handlers :
             /\ (pc[g] # "loading" /\ pc'[g] = "loading") => AllowGranted
             /\ (pc[g] # "fetch" /\ pc'[g] = "fetch") => pc[g] = "loading"]_vars

\* a message was dropped while the cycle of the message before it is running
C11_Witness ==
    /\ updates = 2
    /\ grants = 1
    /\ \E g \in Handlers :
          /\ InCycle(g)
          /\ \A h \in Handlers \ {g} : pc[h] = "idle" /\ loc[h] = InitLoc

\* the kinds of the messages handed to b.bot.Send
Kinds(out) == {out[k].kind : k \in 1 .. Len(out)}

\* every entry of the fetched feed was marked before the cycle started and
\* the mark has not expired (vacuously so for an empty feed)
AllKnown(g) ==
    \A x \in Range(loc[g].items) :
        /\ loc[g].lm0[x] >= 0
        /\ now - loc[g].lm0[x] <= articleExpiry

\* C12: when the fetch succeeds and every feed entry has an unexpired cache
\* entry (or the feed is empty), getHabrInfoSecFeed returns no articles and
\* no error; an empty result without error is answered with the "no new
\* articles" message and never with the fetch-error message; the fetch-error
\* message is sent only when the fetch failed.
C12_EmptyIsNotError ==
    \A g \in Handlers :
        /\ (pc[g] = "got" /\ loc[g].fetches = 1 /\ ~loc[g].err /\ AllKnown(g))
              => loc[g].arts = <<>>
        /\ (pc[g] = "done" /\ loc[g].fetches = 1 /\ ~loc[g].err /\ loc[g].arts = <<>>)
              => ("nonew" \in Kinds(loc[g].out) /\ "error" \notin Kinds(loc[g].out))
        /\ "error" \in Kinds(loc[g].out) => loc[g].err
        /\ (pc[g] = "done" /\ loc[g].err) => "nonew" \notin Kinds(loc[g].out)

\* a cycle on a non-empty feed whose entries were all marked by an earlier
\* cycle has reported "no new articles"
C12_Witness ==
    \E g \in Handlers :
        /\ pc[g] = "done"
        /\ loc[g].fetches = 1
        /\ ~loc[g].err
        /\ loc[g].items # <<>>
        /\ AllKnown(g)
        /\ loc[g].arts = <<>>
        /\ "nonew" \in Kinds(loc[g].out)

\* goroutine g is between Lock and Unlock of one call of wasArticleSent,
\* markArticleAsSent or cleanupExpiredArticles
InCacheCall(g) == pc[g] \in {"wasU", "markU", "cleanU"}

\* C13: the cache lock is held only inside a single wasArticleSent or
\* markArticleAsSent call (or the sweep), never while a cycle is in the feed
\* fetch; a cycle that is in its fetch does not hold the lock, so whenever
\* the lock is free another cycle's check and the sweep can take it.
C13_NoLockDuringFetch ==
    /\ \A g \in Procs : articlesMux = g => InCacheCall(g)
    /\ \A g \in Handlers : pc[g] = "fetch" => articlesMux # g
    /\ \A g, h \in Handlers :
          (/\ pc[g] = "fetch" /\ pc[h] = "loop"
           /\ loc[h].i <= Len(loc[h].items)
           /\ \A p \in Procs : ~InCacheCall(p))
             => ENABLED wasArticleSent(h)

\* one cycle is in its fetch while another goroutine holds the lock
C13_Witness ==
    \E g \in Handlers : \E h \in Procs \ {g} :
        /\ pc[g] = "fetch"
        /\ articlesMux = h
        /\ InCacheCall(h)

\* C14: every attempt to deliver an article, successful or failed, is
\* followed by the 500 ms delay before the next attempt: whenever the send
\* loop of a handler is about to send an article after an earlier attempt, at
\* least sendDelay has passed since that attempt.  The first sendInfoSecFeed
\* leaves the iteration with `continue` when Send fails (main.go 217-221),
\* before the time.Sleep at 224.
C14_DelayAfterEveryAttempt ==
    \A g \in Handlers :
        (/\ pc[g] = "send"
         /\ loc[g].j <= Len(loc[g].arts)
         /\ loc[g].lastTry >= 0)
           => now >= loc[g].lastTry + sendDelay

\* Bot.httpClient: &http.Client{Timeout: 30 * time.Second}.  The field is
\* set in NewBot and read nowhere: b.fp is gofeed.NewParser() and ParseURL
\* is called on it without this client.
httpClientTimeout == 30 * Second

\* C15: the fetch runs under the fixed 30 s timeout of the configured HTTP
\* client, so that no cycle stays in its fetch for longer than the timeout
\* after it started (and so every started cycle returns).  FetchOK and
\* FetchFail carry no deadline, as b.fp.ParseURL(url) at main.go 232 does
\* not.
C15_FetchWithinTimeout ==
    \A g \in Handlers :
        pc[g] = "fetch" => now - loc[g].t0 <= httpClientTimeout

\* the step is the body of markArticleAsSent run by g
MarkCalled(g) == pc[g] = "markL" /\ pc'[g] = "markU"

\* C16: markArticleAsSent(id) makes id a member of the cache and sets its
\* timestamp to the current time; on an id that is already a member the set
\* of cached ids is unchanged; no entry other than id's is changed; and in
\* no step of any goroutine does the timestamp of an entry that stays in the
\* cache decrease.
C16_MarkIdempotentMonotone ==
    [][/\ \A g \in Handlers :
             MarkCalled(g) =>
               /\ DOMAIN articles' = DOMAIN articles \cup {Guid(g)}
               /\ DOMAIN articleTimestamps' = DOMAIN articleTimestamps \cup {Guid(g)}
               /\ Guid(g) \in DOMAIN articles => DOMAIN articles' = DOMAIN articles
               /\ articles'[Guid(g)] = TRUE
               /\ articleTimestamps'[Guid(g)] = now
               /\ \A x \in DOMAIN articles \ {Guid(g)} : articles'[x] = articles[x]
               /\ \A x \in DOMAIN articleTimestamps \ {Guid(g)} :
                     articleTimestamps'[x] = articleTimestamps[x]
       /\ \A x \in DOMAIN articleTimestamps \cap DOMAIN articleTimestamps' :
             articleTimestamps'[x] >= articleTimestamps[x]]_vars

\* markArticleAsSent has just run on an id that another cycle had marked
\* before
C16_Witness ==
    \E g \in Handlers : \E h \in Handlers \ {g} :
        /\ pc[g] = "markU"
        /\ \E k \in 1 .. Len(loc[h].arts) :
              /\ loc[h].arts[k].id = Guid(g)
              /\ loc[h].arts[k].at <= loc[g].t
        /\ articleTimestamps[Guid(g)] = loc[g].t

\* C19: in a cycle markArticleAsSent(id) runs before the Article of id is
\* built: while the entry is being marked its Article is not yet among the
\* collected ones, and once it is, the mark is in the cache.  Every id of a
\* collected or returned sequence has a cache entry, carrying the time of
\* that mark or of a later one, at the return and for as long afterwards as
\* the mark is not older than articleExpiry, whatever becomes of the
\* delivery.
C19_ReturnedIdsCached ==
    /\ \A g \in Handlers :
          /\ pc[g] \in {"markL", "markU"} =>
                \A k \in DOMAIN loc[g].arts :
                    loc[g].arts[k].id \in Range(SubSeq(loc[g].items, 1, loc[g].i - 1))
          /\ pc[g] = "markU" =>
                (Exists(Guid(g)) /\ Timestamp(Guid(g)) = loc[g].t)
          /\ \A k \in DOMAIN loc[g].arts :
                LET a == loc[g].arts[k]
                IN  /\ a.chk <= a.at
                    /\ a.at <= now
                    /\ (now - a.at <= articleExpiry) =>
                          (Exists(a.id) /\ Timestamp(a.id) >= a.at)
    /\ \A x \in AllGUIDs :
          (retMark[x] >= 0 /\ now - retMark[x] <= articleExpiry) =>
              (Exists(x) /\ Timestamp(x) >= retMark[x])

\* a returned article whose delivery failed is in the cache a full
\* retention period after its mark, a sweep having run in between
C19_Witness ==
    \E x \in AllGUIDs :
        /\ retMark[x] >= 0
        /\ failedAt[x] = retMark[x]
        /\ now - retMark[x] = articleExpiry
        /\ ticker > cleanupEvery
        /\ pc[Cleaner] = "ticker"
        /\ Exists(x)
        /\ Timestamp(x) = retMark[x]

\* a is b with some of its entries left out
RECURSIVE IsSubsequence(_, _)
IsSubsequence(a, b) ==
    IF a = <<>> THEN TRUE
    ELSE IF b = <<>> THEN FALSE
         ELSE IF Head(a) = Head(b) THEN IsSubsequence(Tail(a), Tail(b))
              ELSE IsSubsequence(a, Tail(b))

\* when the cycle of g started, the first k entries of its feed had marks
\* that are still not expired, and the maxResults entries after them are
\* pairwise different and had never been marked
SkipsThenNew(g, k) ==
    /\ Len(loc[g].items) >= k + maxResults
    /\ \A i \in 1 .. k :
          /\ loc[g].lm0[loc[g].items[i]] >= 0
          /\ now - loc[g].lm0[loc[g].items[i]] <= articleExpiry
    /\ \A i \in (k + 1) .. (k + maxResults) : loc[g].lm0[loc[g].items[i]] < 0
    /\ Distinct(SubSeq(loc[g].items, k + 1, k + maxResults))

\* C20: entries skipped because wasArticleSent returned true do not count
\* toward the cap: a cycle on a feed whose first k entries are marked and
\* unexpired and are followed by at least maxResults unmarked entries returns
\* exactly the maxResults entries after the first k, in the feed's order;
\* and what a cycle returns is always a subsequence of the feed.
C20_SkippedNotCounted ==
    \A g \in Handlers :
        (pc[g] = "got" /\ ~loc[g].err) =>
            /\ IsSubsequence(Ids(loc[g].arts), loc[g].items)
            /\ \A k \in 0 .. Len(loc[g].items) :
                  SkipsThenNew(g, k) =>
                      Ids(loc[g].arts) = SubSeq(loc[g].items, k + 1, k + maxResults)

\* a cycle has skipped two marked entries at the head of the feed and
\* returned the maxResults entries after them
C20_Witness ==
    \E g \in Handlers :
        /\ pc[g] = "got" /\ ~loc[g].err
        /\ SkipsThenNew(g, 2)
        /\ Len(loc[g].arts) = maxResults
        /\ Ids(loc[g].arts) = SubSeq(loc[g].items, 3, maxResults + 2)

-----------------------------------------------------------------------------
(* trimSummary (main.go 272-291).  A Go string is a sequence of bytes; a   *)
(* byte is written as a one-character string, and the two bytes of a       *)
(* Cyrillic letter in UTF-8 as "D1" and "8F".                              *)

\* the byte budget of the summary: if len(summary) > 200
summaryLimit == 200
ellipsis == <<".", ".", ".">>

tagBr == <<"<", "b", "r", ">">>
tagP == <<"<", "p", ">">>
tagPEnd == <<"<", "/", "p", ">">>
tagStrong == <<"<", "s", "t", "r", "o", "n", "g", ">">>
tagStrongEnd == <<"<", "/", "s", "t", "r", "o", "n", "g", ">">>
tagEm == <<"<", "e", "m", ">">>
tagEmEnd == <<"<", "/", "e", "m", ">">>

\* the least element of a non-empty set of indexes
SetMin(S) == CHOOSE k \in S : \A j \in S : k <= j

\* the bytes unicode.IsSpace holds for (of those that occur in the inputs)
Blank == {" ", "\n"}

\* the indexes from i on at which old occurs in s
Occurrences(s, i, old) ==
    {k \in i .. (Len(s) - Len(old) + 1) : SubSeq(s, k, k + Len(old) - 1) = old}

\* strings.ReplaceAll(s, old, new) from index i on: the non-overlapping
\* occurrences of old, left to right
RECURSIVE ReplaceFrom(_, _, _, _)
ReplaceFrom(s, i, old, new) ==
    IF Occurrences(s, i, old) = {} THEN SubSeq(s, i, Len(s))
    ELSE LET k == SetMin(Occurrences(s, i, old))
         IN  (SubSeq(s, i, k - 1) \o new) \o ReplaceFrom(s, k + Len(old), old, new)

ReplaceAll(s, old, new) == ReplaceFrom(s, 1, old, new)

\* strings.Fields(s) from index i on: the maximal runs of bytes that are
\* not white space
RECURSIVE FieldsFrom(_, _)
FieldsFrom(s, i) ==
    LET starts == {k \in i .. Len(s) : s[k] \notin Blank}
    IN  IF starts = {} THEN <<>>
        ELSE LET b == SetMin(starts)
                 ends == {k \in b .. Len(s) : s[k] \in Blank}
                 e == IF ends = {} THEN Len(s) + 1 ELSE SetMin(ends)
             IN  <<SubSeq(s, b, e - 1)>> \o FieldsFrom(s, e)

Fields(s) == FieldsFrom(s, 1)

\* strings.Join(elems, sep)
RECURSIVE Join(_, _)
Join(elems, sep) ==
    IF elems = <<>> THEN <<>>
    ELSE IF Len(elems) = 1 THEN elems[1]
         ELSE (elems[1] \o sep) \o Join(Tail(elems), sep)

\* the seven ReplaceAll calls without the one for "</em>"
stripTagsKeepEmEnd(s) ==
    LET s1 == ReplaceAll(s, tagBr, <<" ">>)
        s2 == ReplaceAll(s1, tagP, <<" ">>)
        s3 == ReplaceAll(s2, tagPEnd, <<" ">>)
        s4 == ReplaceAll(s3, tagStrong, <<>>)
        s5 == ReplaceAll(s4, tagStrongEnd, <<>>)
    IN  ReplaceAll(s5, tagEm, <<>>)

\* main.go 274-280: the seven ReplaceAll calls, in their order
stripTags(s) ==
    LET s1 == ReplaceAll(s, tagBr, <<" ">>)
        s2 == ReplaceAll(s1, tagP, <<" ">>)
        s3 == ReplaceAll(s2, tagPEnd, <<" ">>)
        s4 == ReplaceAll(s3, tagStrong, <<>>)
        s5 == ReplaceAll(s4, tagStrongEnd, <<>>)
        s6 == ReplaceAll(s5, tagEm, <<>>)
    IN  ReplaceAll(s6, tagEmEnd, <<>>)

\* main.go 283: strings.Join(strings.Fields(summary), " ")
collapseSpaces(s) == Join(Fields(s), <<" ">>)

\* main.go 286-288: len and the slice count bytes
truncate(s) == IF Len(s) > summaryLimit THEN SubSeq(s, 1, summaryLimit) \o ellipsis ELSE s

trimSummary(summary) == truncate(collapseSpaces(stripTags(summary)))

\* Summary: b.trimSummary(item.Description), main.go 257
trimSummaryCall(g) ==
    /\ pc[g] = "trim"
    /\ loc' = [loc EXCEPT ![g].summary = trimSummary(loc[g].desc)]
    /\ pc' = [pc EXCEPT ![g] = "trimmed"]
    /\ UNCHANGED <<Env, Cache, History, limiter, Grants>>

-----------------------------------------------------------------------------
(* The descriptions trimSummary is applied to *)

\* number of pieces of the short descriptions
MaxPieces == 2
\* number of letters of the long plain-text description
LongLen == 500

letterA == <<"A">>
letterB == <<"B">>
\* a Cyrillic letter: two bytes in UTF-8
letterYa == <<"D1", "8F">>
tagDiv == <<"<", "d", "i", "v", ">">>
tagBrSelf == <<"<", "b", "r", "/", ">">>

SpaceTags == {tagBr, tagP, tagPEnd}
RemovedTags == {tagStrong, tagStrongEnd, tagEm, tagEmEnd}
OtherTags == {tagDiv, tagBrSelf}
Letters == {letterA, letterB, letterYa}
Blanks == {<<" ">>, <<"\n">>}
Pieces == Letters \cup Blanks \cup SpaceTags \cup RemovedTags \cup OtherTags

\* the bytes of a sequence of pieces
RECURSIVE Flatten(_)
Flatten(ps) ==
    IF ps = <<>> THEN <<>>
    ELSE IF Len(ps) = 1 THEN ps[1]
         ELSE Flatten(SubSeq(ps, 1, Len(ps) \div 2))
                \o Flatten(SubSeq(ps, Len(ps) \div 2 + 1, Len(ps)))

\* '<p>A</p><strong>B</strong>'
ExampleInput == <<tagP, letterA, tagPEnd, tagStrong, letterB, tagStrongEnd>>

ShortInputs == UNION {[1 .. n -> Pieces] : n \in 0 .. MaxPieces}

\* n times the piece u
Repeat(u, n) == [k \in 1 .. n |-> u]

LongCounts ==
    {summaryLimit \div 2, summaryLimit \div 2 + 1, summaryLimit - 1, summaryLimit,
     summaryLimit + 1, LongLen}

LongInputs ==
    {pre \o Repeat(u, n) : pre \in {<<>>, <<letterA>>, <<tagP>>},
                           u \in {letterA, letterYa}, n \in LongCounts}

TrimInputs == ShortInputs \cup LongInputs \cup {ExampleInput}

\* getHabrInfoSecFeed is about to build the Article of an entry whose
\* Description is one of the inputs
InitTrim ==
    /\ now = 0
    /\ ticks = 0
    /\ updates = 0
    /\ articles = EmptyMap
    /\ articleTimestamps = EmptyMap
    /\ articlesMux = "free"
    /\ limiter = [tokens |-> limiterBurst * limiterEvery, last |-> 0]
    /\ pc = [g \in Procs |-> IF g = Cleaner THEN "ticker"
                              ELSE IF g = "h1" THEN "trim" ELSE "idle"]
    /\ \E t \in TrimInputs :
          loc = [g \in Procs |-> IF g = "h1"
                                  THEN [InitLoc EXCEPT !.toks = t, !.desc = Flatten(t)]
                                  ELSE InitLoc]
    /\ lastMark = [x \in AllGUIDs |-> -1]
    /\ retMark = [x \in AllGUIDs |-> -1]
    /\ lastCycle = NoCycle
    /\ lastGrant = -1
    /\ grants = 0
    /\ chatLog = NoChats
    /\ failedAt = [x \in AllGUIDs |-> -1]
    /\ ticker = cleanupEvery
    /\ crashed = FALSE

NextTrim == trimSummaryCall("h1")

\* trimSummary applied to each of the descriptions
SpecTrim == InitTrim /\ [][NextTrim]_vars

-----------------------------------------------------------------------------
(* Properties of trimSummary *)

\* the number of characters of a string: every byte but the second byte of a
\* two-byte letter begins one
CharStarts(s) == {i \in 1 .. Len(s) : s[i] # "8F"}

Chars(s) == Cardinality(CharStarts(s))

\* the first n characters of a string
TakeChars(s, n) ==
    IF Chars(s) <= n THEN s
    ELSE LET k == CHOOSE k \in CharStarts(s) :
                    Cardinality({j \in CharStarts(s) : j < k}) = n
         IN  SubSeq(s, 1, k - 1)

\* no piece of the description is one of the seven tags
NoKnownTags(ps) == \A k \in 1 .. Len(ps) : ps[k] \notin SpaceTags \cup RemovedTags

\* C17: if the text after the tag replacement and the whitespace collapse is
\* longer than 200 characters, the summary is its first 200 characters
\* followed by "..." (203 characters); if it has at most 200 characters and
\* the description holds none of the seven tags, the summary is the
\* whitespace-collapsed description, with no ellipsis.  trimSummary counts
\* and cuts bytes (main.go 286-287), and the feed is in Russian.
C17_BoundedAt200Characters ==
    \A g \in Handlers :
        pc[g] = "trimmed" =>
          LET w == collapseSpaces(stripTags(loc[g].desc))
          IN  /\ Chars(w) > summaryLimit =>
                    /\ loc[g].summary = TakeChars(w, summaryLimit) \o ellipsis
                    /\ Chars(loc[g].summary) = summaryLimit + Len(ellipsis)
              /\ (Chars(w) <= summaryLimit /\ NoKnownTags(loc[g].toks)) =>
                    loc[g].summary = collapseSpaces(loc[g].desc)

\* what a piece of the description becomes: a space, nothing, or itself
Subst(p) ==
    IF p \in SpaceTags THEN <<" ">>
    ELSE IF p \in RemovedTags THEN <<>> ELSE p

\* a stretch of the description after the substitution: its text with the
\* white space collapsed and trimmed, and whether white space begins and
\* ends it
Stretch(body, lead, trail) == [body |-> body, lead |-> lead, trail |-> trail]

\* two adjacent stretches put together
Merge(l, r) ==
    IF l.body = <<>>
    THEN Stretch(r.body, l.lead \/ r.lead,
                 IF r.body = <<>> THEN l.trail \/ r.trail ELSE r.trail)
    ELSE IF r.body = <<>>
         THEN Stretch(l.body, l.lead, l.trail \/ r.lead)
         ELSE Stretch((l.body \o (IF l.trail \/ r.lead THEN <<" ">> ELSE <<>>)) \o r.body,
                      l.lead, r.trail)

RECURSIVE Norm(_)
Norm(ps) ==
    IF ps = <<>> THEN Stretch(<<>>, FALSE, FALSE)
    ELSE IF Len(ps) = 1
         THEN IF Subst(ps[1]) \in Blanks
              THEN Stretch(<<>>, TRUE, TRUE)
              ELSE Stretch(Subst(ps[1]), FALSE, FALSE)
         ELSE Merge(Norm(SubSeq(ps, 1, Len(ps) \div 2)),
                    Norm(SubSeq(ps, Len(ps) \div 2 + 1, Len(ps))))

\* the description with each of <br>, <p>, </p> turned into a space, each of
\* <strong>, </strong>, <em>, </em> taken out, every other piece kept, runs
\* of white space made one space and both ends trimmed
Expected(ps) == Norm(ps).body

\* the number of pieces of the description that are the tag t
CountPieces(ps, t) == Cardinality({k \in 1 .. Len(ps) : ps[k] = t})

-----------------------------------------------------------------------------
(* Properties of the cache: deletion, consistency, the sweep, the lock *)

\* the step takes the entry of x out of the cache
Deleted(x) ==
    /\ x \in DOMAIN articles \cup DOMAIN articleTimestamps
    /\ x \notin DOMAIN articles' \/ x \notin DOMAIN articleTimestamps'

\* C21: an entry is deleted only when it has expired: in every step that
\* takes the entry of x out of the cache, the step is the eviction of x by
\* wasArticleSent(x) or the sweep, and at the time of the step the age of
\* the entry is more than articleExpiry.
C21_DeletedOnlyExpired ==
    [][\A x \in AllGUIDs :
          Deleted(x) =>
             /\ x \in DOMAIN articleTimestamps
             /\ now - articleTimestamps[x] > articleExpiry
             /\ \/ pc[Cleaner] = "ticker" /\ pc'[Cleaner] = "cleanU"
                \/ \E g \in Handlers :
                      pc[g] = "loop" /\ pc'[g] = "wasU" /\ Guid(g) = x]_vars

\* wasArticleSent has evicted an entry older than the retention period while
\* an entry whose age is exactly the retention period is still in the cache
C21_Witness ==
    \E g \in Handlers : \E y \in DOMAIN articleTimestamps :
        /\ pc[g] = "wasU"
        /\ ~loc[g].ret
        /\ lastMark[Guid(g)] >= 0
        /\ loc[g].chk - lastMark[Guid(g)] > articleExpiry
        /\ Guid(g) \notin DOMAIN articles
        /\ now - articleTimestamps[y] = articleExpiry

-----------------------------------------------------------------------------
(* The three cache functions statement by statement: between Lock and the   *)
(* deferred Unlock the two maps are written one after the other.           *)

\* wasArticleSent: b.articlesMux.Lock() (105)
wasLock(g) ==
    /\ pc[g] = "loop"
    /\ loc[g].i <= Len(loc[g].items)
    /\ Lock(g)
    /\ pc' = [pc EXCEPT ![g] = "wasB"]
    /\ UNCHANGED <<Env, articles, articleTimestamps, History, limiter, Grants, loc>>

\* wasArticleSent: no entry, or an entry that has not expired (109-118)
wasKeep(g) ==
    /\ pc[g] = "wasB"
    /\ ~(Exists(Guid(g)) /\ Expired(Timestamp(Guid(g)), now))
    /\ loc' = [loc EXCEPT ![g].ret = wasArticleSentResult(Guid(g), now),
                          ![g].chk = now,
                          ![g].cacheOps = @ + 1]
    /\ pc' = [pc EXCEPT ![g] = "wasU"]
    /\ UNCHANGED <<Env, Cache, History, limiter, Grants>>

\* wasArticleSent with the lock given up once the marker is deleted
wasDeleteMarkerThenUnlock(g) ==
    /\ pc[g] = "wasB"
    /\ Exists(Guid(g)) /\ Expired(Timestamp(Guid(g)), now)
    /\ articles' = MapDelete(articles, Guid(g))
    /\ articlesMux' = "free"
    /\ loc' = [loc EXCEPT ![g].chk = now, ![g].cacheOps = @ + 1]
    /\ pc' = [pc EXCEPT ![g] = "wasD"]
    /\ UNCHANGED <<Env, articleTimestamps, History, limiter, Grants>>

\* wasArticleSent: the entry has expired, delete(b.articles, guid) (111-113)
wasDeleteMarker(g) ==
    /\ pc[g] = "wasB"
    /\ Exists(Guid(g)) /\ Expired(Timestamp(Guid(g)), now)
    /\ articles' = MapDelete(articles, Guid(g))
    /\ loc' = [loc EXCEPT ![g].chk = now, ![g].cacheOps = @ + 1]
    /\ pc' = [pc EXCEPT ![g] = "wasD"]
    /\ UNCHANGED <<Env, articleTimestamps, articlesMux, History, limiter, Grants>>

\* wasArticleSent: delete(b.articleTimestamps, guid); return false (114-115)
wasDeleteTimestamp(g) ==
    /\ pc[g] = "wasD"
    /\ articleTimestamps' = MapDelete(articleTimestamps, Guid(g))
    /\ loc' = [loc EXCEPT ![g].ret = FALSE]
    /\ pc' = [pc EXCEPT ![g] = "wasU"]
    /\ UNCHANGED <<Env, articles, articlesMux, History, limiter, Grants>>

\* markArticleAsSent: b.articlesMux.Lock() (124)
markLock(g) ==
    /\ pc[g] = "markL"
    /\ Lock(g)
    /\ pc' = [pc EXCEPT ![g] = "markB"]
    /\ UNCHANGED <<Env, articles, articleTimestamps, History, limiter, Grants, loc>>

\* markArticleAsSent: b.articles[guid] = true (127)
markMarker(g) ==
    /\ pc[g] = "markB"
    /\ articles' = MapPut(articles, Guid(g), TRUE)
    /\ pc' = [pc EXCEPT ![g] = "markT"]
    /\ UNCHANGED <<Env, articleTimestamps, articlesMux, History, limiter, Grants, loc>>

\* markArticleAsSent: b.articleTimestamps[guid] = time.Now() (128)
markTimestamp(g) ==
    /\ pc[g] = "markT"
    /\ articleTimestamps' = MapPut(articleTimestamps, Guid(g), now)
    /\ lastMark' = [lastMark EXCEPT ![Guid(g)] = now]
    /\ loc' = [loc EXCEPT ![g].t = now, ![g].cacheOps = @ + 1]
    /\ pc' = [pc EXCEPT ![g] = "markU"]
    /\ UNCHANGED <<Env, articles, articlesMux, retMark, lastCycle, failedAt, limiter, Grants>>

\* for range ticker.C: a tick is received; cleanupExpiredArticles: Lock and
\* now := time.Now() (134-136)
cleanLock(g) ==
    /\ pc[g] = "ticker"
    /\ now >= ticker
    /\ ticker' = tickerNext(now)
    /\ Lock(g)
    /\ loc' = [loc EXCEPT ![g].t = now, ![g].snap = articleTimestamps]
    /\ pc' = [pc EXCEPT ![g] = "cleanB"]
    /\ UNCHANGED <<now, ticks, updates, crashed, articles, articleTimestamps,
                   History, limiter, Grants>>

\* cleanupExpiredArticles: the range loop is at an expired entry (the order
\* of a range over a map is not fixed), delete(b.articles, guid) (137-139)
cleanDeleteMarker(g) ==
    /\ pc[g] = "cleanB"
    /\ \E x \in cleanupVictims(loc[g].t) : articles' = MapDelete(articles, x)
    /\ pc' = [pc EXCEPT ![g] = "cleanD"]
    /\ UNCHANGED <<Env, articleTimestamps, articlesMux, History, limiter, Grants, loc>>

\* cleanupExpiredArticles: delete(b.articleTimestamps, guid) of the same
\* entry (140)
cleanDeleteTimestamp(g) ==
    /\ pc[g] = "cleanD"
    /\ \E x \in DOMAIN articleTimestamps \ DOMAIN articles :
          articleTimestamps' = MapDelete(articleTimestamps, x)
    /\ pc' = [pc EXCEPT ![g] = "cleanB"]
    /\ UNCHANGED <<Env, articles, articlesMux, History, limiter, Grants, loc>>

\* cleanupExpiredArticles: the range loop has passed every entry (142)
cleanDone(g) ==
    /\ pc[g] = "cleanB"
    /\ cleanupVictims(loc[g].t) = {}
    /\ pc' = [pc EXCEPT ![g] = "cleanU"]
    /\ UNCHANGED <<Env, Cache, History, limiter, Grants, loc>>

\* one step of a fetch cycle, the cache functions statement by statement
CycleStepFine(g, feeds, oks) ==
    \/ SendLoading(g, oks)
    \/ FetchOK(g, feeds)
    \/ wasLock(g)
    \/ wasKeep(g)
    \/ wasDeleteMarker(g)
    \/ wasDeleteTimestamp(g)
    \/ WasUnlock(g)
    \/ markLock(g)
    \/ markMarker(g)
    \/ markTimestamp(g)
    \/ MarkUnlock(g)
    \/ LoopEnd(g)
    \/ Return(g)

\* one step of the cleanup goroutine, statement by statement
CleanerStepFine ==
    \/ cleanLock(Cleaner)
    \/ cleanDeleteMarker(Cleaner)
    \/ cleanDeleteTimestamp(Cleaner)
    \/ cleanDone(Cleaner)
    \/ CleanUnlock(Cleaner)

\* the feed of the statement-by-statement specification
FineFeeds == {<<1>>}

NextFine ==
    \/ \E g \in Handlers :
         \/ handleMessage(g, {"/infosec"}, MaxUpdates)
         \/ CycleStepFine(g, FineFeeds, {TRUE})
         \/ RejectedStep(g)
         \/ handlerReturn(g)
    \/ CleanerStepFine
    \/ Tick(Steps, MaxTicks)

\* two handler goroutines and the cleanup goroutine, every write of a map a
\* step of its own
SpecFine == Init /\ [][NextFine]_vars

\* goroutine g has written one of the two maps and not yet the other
MidWrite(g) == pc[g] \in {"wasD", "markT", "cleanD"}

\* C22: whenever the lock is free the two maps hold the same ids and every
\* stored marker is true; the maps differ only while the goroutine that
\* holds the lock is between its two writes, where no other goroutine is
\* inside a cache function.
C22_TablesConsistent ==
    /\ \A x \in DOMAIN articles : articles[x]
    /\ articlesMux = "free" => DOMAIN articles = DOMAIN articleTimestamps
    /\ DOMAIN articles # DOMAIN articleTimestamps =>
          /\ articlesMux \in Procs
          /\ MidWrite(articlesMux)
          /\ \A h \in Procs \ {articlesMux} :
                pc[h] \notin {"wasB", "wasD", "wasU", "markB", "markT", "markU",
                              "cleanB", "cleanD", "cleanU"}

\* wasArticleSent is between its two deletes, the maps differ, and the
\* cleanup goroutine has a tick to serve and waits for the lock
C22_Witness ==
    \E g \in Handlers :
        /\ pc[g] = "wasD"
        /\ articlesMux = g
        /\ Guid(g) \in DOMAIN articleTimestamps \ DOMAIN articles
        /\ pc[Cleaner] = "ticker"
        /\ now >= ticker

-----------------------------------------------------------------------------
(* The sweep under fairness *)

\* The cleanup goroutine is a goroutine of its own (main.go 59-66): whenever
\* its ticker has a tick for it, it is scheduled and, the mutex handing the
\* lock to a waiting goroutine, gets the lock; a goroutine that holds the
\* lock is scheduled and releases it.  Nothing is assumed about messages
\* arriving, fetches returning or deliveries going on.
FairSweep ==
    /\ SF_vars(cleanupExpiredArticles(Cleaner))
    /\ WF_vars(CleanUnlock(Cleaner))
    /\ \A g \in Handlers : WF_vars(WasUnlock(g) \/ MarkUnlock(g))

\* SpecSweep with the cleanup goroutine scheduled fairly
SpecSweepFair == SpecSweep /\ FairSweep

\* the guids that occur in the feeds of SpecSweep: no other is ever marked
SweepGUIDs == UNION {Range(f) : f \in SweepFeeds}

\* the entry of x is in the cache and older than the retention period
Stale(x) == x \in DOMAIN articleTimestamps /\ Expired(articleTimestamps[x], now)

\* C23: the sweep runs in a goroutine of its own on a ticker of one hour, so
\* that the next tick is never more than cleanupEvery ahead of the clock,
\* whatever the handlers do; and an entry that is older than the retention
\* period when a tick is due is eventually deleted (or marked anew), even if
\* no message arrives and no fetch cycle runs any more.
C23_SweepEventuallyDeletes ==
    /\ [](ticker <= now + cleanupEvery /\ ticker % cleanupEvery = 0)
    /\ [](DOMAIN articleTimestamps \subseteq SweepGUIDs)
    /\ \A x \in SweepGUIDs : (Stale(x) /\ now >= ticker) ~> ~Stale(x)

\* the sweep has deleted an expired entry while no handler is running and no
\* message is left to come
C23_Witness ==
    /\ pc[Cleaner] = "cleanU"
    /\ \A g \in Handlers : pc[g] = "idle"
    /\ updates = MaxUpdates
    /\ \E x \in DOMAIN loc[Cleaner].snap :
          /\ Expired(loc[Cleaner].snap[x], loc[Cleaner].t)
          /\ x \notin DOMAIN articleTimestamps
          /\ x \notin DOMAIN articles

-----------------------------------------------------------------------------
\* The limiter and the chats

\* commands answered with one message each, and free text
ChatCmds == {"/start", "/help", "hello"}

NextChat ==
    \/ \E g \in Handlers :
         \/ handleMessageFrom(g, Consumers, ChatCmds, MaxCalls)
         \/ ReplyStep(g)
         \/ handlerReturn(g)
    \/ Tick({sendDelay}, FineTicks)

\* two handler goroutines serving the messages of two chats
SpecChat == Init /\ [][NextChat]_vars

\* a message of another chat than c was let through less than a refill
\* interval ago
OtherServedLately(c) ==
    \E a \in Consumers \ {c} :
        /\ chatLog[a].grantedAt >= 0
        /\ now - chatLog[a].grantedAt < limiterEvery

\* C24: b.limiter is one bucket for all chats: a message of chat c that
\* arrives less than a refill interval after a message of another chat was
\* let through is dropped, whatever its command.
C24_SharedBucket ==
    [][\A c \in Consumers :
          (chatLog'[c].asked = chatLog[c].asked + 1 /\ OtherServedLately(c))
              => /\ chatLog'[c].granted = chatLog[c].granted
                 /\ AllowDenied]_vars

\* chat A has been served twice, a refill interval apart, and each message
\* of chat B came just after one of A and was dropped: B is never served
C24_Witness ==
    /\ chatLog["A"].granted = 2
    /\ chatLog["A"].asked = 2
    /\ chatLog["B"].asked = 2
    /\ chatLog["B"].granted = 0
    /\ now = chatLog["A"].grantedAt
    /\ now >= limiterEvery

-----------------------------------------------------------------------------
\* The frame of wasArticleSent

\* goroutine g runs wasArticleSent in this step
WasCalled(g) == pc[g] = "loop" /\ pc'[g] = "wasU"

\* the entry of x is the same before and after the step
SameEntry(x) ==
    /\ (x \in DOMAIN articles) = (x \in DOMAIN articles')
    /\ (x \in DOMAIN articleTimestamps) = (x \in DOMAIN articleTimestamps')
    /\ x \in DOMAIN articles => articles'[x] = articles[x]
    /\ x \in DOMAIN articleTimestamps =>
           articleTimestamps'[x] = articleTimestamps[x]

\* C25: a wasArticleSent call that returns true, or finds no entry for the
\* guid, changes neither map (it does not renew the timestamp); a call that
\* deletes the entry of the guid changes no other entry. So the timestamp of
\* an entry stays that of the latest markArticleAsSent however often the
\* guid is checked, and a check later than the retention period after that
\* mark returns false.
C25_CheckReadOnly ==
    /\ [][\A g \in Handlers :
             WasCalled(g) =>
                 /\ \A x \in AllGUIDs \ {Guid(g)} : SameEntry(x)
                 /\ (loc'[g].ret \/ Guid(g) \notin DOMAIN articleTimestamps)
                        => UNCHANGED <<articles, articleTimestamps>>
                 /\ Guid(g) \notin DOMAIN articles'
                        => Guid(g) \notin DOMAIN articleTimestamps']_vars
    /\ [](\A x \in DOMAIN articleTimestamps :
              articleTimestamps[x] = lastMark[x])
    /\ [](\A g \in Handlers :
              (pc[g] = "wasU" /\ lastMark[Guid(g)] >= 0
                  /\ loc[g].chk - lastMark[Guid(g)] > articleExpiry)
                  => ~loc[g].ret)

\* a check, made an hour after the guid was marked, has returned true and
\* left the timestamp of the mark in place
C25_Witness ==
    \E g \in Handlers :
        /\ pc[g] = "wasU"
        /\ loc[g].ret
        /\ Guid(g) \in DOMAIN articleTimestamps
        /\ loc[g].chk > articleTimestamps[Guid(g)]
        /\ articleTimestamps[Guid(g)] = lastMark[Guid(g)]

-----------------------------------------------------------------------------
\* The lock

\* the goroutines are scheduled: the one that is inside a cache function
\* goes on to its deferred Unlock (at most one goroutine is there at a time),
\* and sync.Mutex hands the lock to a goroutine that waits in Lock although
\* others take and release it meanwhile
FairFine ==
    /\ \A g \in Handlers : SF_vars(wasLock(g) \/ markLock(g))
    /\ SF_vars(cleanLock(Cleaner))
    /\ WF_vars(\/ \E g \in Handlers :
                    \/ wasKeep(g) \/ wasDeleteMarker(g) \/ wasDeleteTimestamp(g)
                    \/ WasUnlock(g) \/ markMarker(g) \/ markTimestamp(g)
                    \/ MarkUnlock(g)
               \/ cleanDeleteMarker(Cleaner) \/ cleanDeleteTimestamp(Cleaner)
               \/ cleanDone(Cleaner) \/ CleanUnlock(Cleaner))

\* as NextFine, with one message for each handler goroutine
NextLock ==
    \/ \E g \in Handlers :
         \/ handleMessage(g, {"/infosec"}, Cardinality(Handlers))
         \/ CycleStepFine(g, FineFeeds, {TRUE})
         \/ RejectedStep(g)
         \/ handlerReturn(g)
    \/ CleanerStepFine
    \/ Tick(Steps, MaxTicks)

\* two fetch cycles and the cleanup goroutine, statement by statement, the
\* goroutines scheduled fairly
SpecLock == Init /\ [][NextLock]_vars /\ FairFine

\* goroutine g is between the Lock and the deferred Unlock of a cache function
Holding(g) ==
    pc[g] \in {"wasB", "wasD", "wasU", "markB", "markT", "markU",
               "cleanB", "cleanD", "cleanU"}

\* goroutine g is at b.articlesMux.Lock(): a handler calling wasArticleSent
\* or markArticleAsSent, the cleanup goroutine with a tick to serve
Requests(g) ==
    IF g = Cleaner
    THEN pc[g] = "ticker" /\ now >= ticker
    ELSE \/ pc[g] = "loop" /\ loc[g].i <= Len(loc[g].items)
         \/ pc[g] = "markL"

\* C26: the lock is held exactly by a goroutine that is inside a cache
\* function, so every return of wasArticleSent, markArticleAsSent and
\* cleanupExpiredArticles has released it; no goroutine calls Lock while it
\* holds the lock; and with the goroutines scheduled fairly every goroutine
\* that calls Lock gets the lock: its wait ends only by getting the lock,
\* and it does not wait for ever.
C26_LockDiscipline ==
    /\ [](/\ articlesMux \in Procs \cup {"free"}
          /\ \A g \in Procs : (articlesMux = g) <=> Holding(g))
    /\ [](\A g \in Procs : Requests(g) => articlesMux # g)
    /\ [][\A g \in Procs :
             (Requests(g) /\ ~Requests(g)') => articlesMux' = g]_vars
    /\ \A g \in Procs : []<>(~Requests(g))

\* one handler is inside a cache function while the other handler and the
\* cleanup goroutine both wait in Lock
C26_Witness ==
    \E g, h \in Handlers :
        /\ g # h
        /\ articlesMux = g
        /\ Holding(g)
        /\ Requests(h)
        /\ Requests(Cleaner)

-----------------------------------------------------------------------------
\* A guid repeated in the feed

\* the statement as it stands: no id occurs twice among the articles a
\* cycle has collected, whatever the feed
C27_NoIdTwice == \A g \in Handlers : Distinct(Ids(loc[g].arts))

\* C27: among the articles one cycle collects an id occurs again only if
\* its earlier mark was older than the retention period when the later
\* entry was checked; as long as that mark is in force, a later entry of
\* the feed with the same guid is skipped.
C27_NoIdTwiceWithinRetention ==
    \A g \in Handlers :
        /\ \A i, j \in DOMAIN loc[g].arts :
               (i < j /\ loc[g].arts[i].id = loc[g].arts[j].id) =>
                   loc[g].arts[j].at - loc[g].arts[i].at > articleExpiry
        /\ (pc[g] = "wasU"
              /\ \E k \in DOMAIN loc[g].arts :
                     /\ loc[g].arts[k].id = Guid(g)
                     /\ loc[g].chk - loc[g].arts[k].at <= articleExpiry)
               => loc[g].ret

\* a cycle on a feed whose two entries have the same guid has returned one
\* article
C27_Witness ==
    \E g \in Handlers :
        /\ pc[g] = "got" /\ ~loc[g].err
        /\ Len(loc[g].items) = 2
        /\ loc[g].items[1] = loc[g].items[2]
        /\ Ids(loc[g].arts) = <<loc[g].items[1]>>
====
